---- MODULE Spec2Model ----
(***************************************************************************)
(* PDF Extractor API (src/main.py): the page-specifier parser              *)
(* parse_pages_param and the two request handlers, POST /extract           *)
(* (extract_text) and POST /convert-to-excel (convert_to_excel).           *)
(*                                                                         *)
(* A Python str is a sequence of one-character tokens.  TLA+ strings are   *)
(* ASCII, so the Cyrillic letters of the source are written by their Latin *)
(* transliteration, one token per letter, and SUPERSCRIPT TWO (U+00B2) is   *)
(* the token "sup2".  Python's None is the one-token sequence None.        *)
(***************************************************************************)
EXTENDS Integers, Sequences, FiniteSets, TLC

VARIABLES
    pc,            \* where the call is: idle, save, open, loop, encode, done
    endpoint,      \* the route of the request
    pages,         \* the pages form field (None when not sent)
    doc,           \* the uploaded document: per page, its text and its tables
    files,         \* the temporary files that exist
    total_pages,
    parsed,        \* the outcome of parse_pages_param (page_numbers)
    i,             \* the loop's page number (i, page_num)
    result_text,
    all_dfs,
    total_tables,
    combined_df,
    sheet,         \* the rows written to the sheet "Extracted"
    exc,           \* the exception the handler caught (NoExc when none)
    response

vars == <<pc, endpoint, pages, doc, files, total_pages, parsed, i, result_text,
          all_dfs, total_tables, combined_df, sheet, exc, response>>

(***************************************************************************)
(* Bounds of the model.                                                    *)
(***************************************************************************)
\* longest page specifier handed to parse_pages_param on its own
MaxLen == 4
\* largest total_pages handed to parse_pages_param on its own
MaxTotal == 7
\* longest page specifier of a request
MaxReqLen == 3
\* most pages of an uploaded document
MaxPages == 2
\* most tables the table backend finds on one page
MaxTables == 1

(***************************************************************************)
(* Characters and Python's str methods.                                    *)
(***************************************************************************)
None == <<"None">>

DecimalChars == {"0", "1", "2"}

\* str.isdigit() is also true of digit characters that are not decimal
DigitChars == DecimalChars \cup {"sup2"}

Whitespace == {" "}

Alphabet == DecimalChars \cup {"sup2", ",", "-", " ", "x"}

Max(a, b) == IF a >= b THEN a ELSE b

Min(a, b) == IF a <= b THEN a ELSE b

\* all strings over Alphabet of length at most n
Strings(n) == UNION {[1..k -> Alphabet] : k \in 0..n}

\* Python's truth value of an optional str
Truthy(s) == s # None /\ s # <<>>

LowerChar(c) == CASE c = "A" -> "a" [] c = "L" -> "l" [] c = "X" -> "x" [] OTHER -> c

\* str.lower()
Lower(s) == [k \in 1..Len(s) |-> LowerChar(s[k])]

RECURSIVE LStrip(_)
LStrip(s) == IF s # <<>> /\ Head(s) \in Whitespace THEN LStrip(Tail(s)) ELSE s

RECURSIVE RStrip(_)
RStrip(s) ==
    IF s # <<>> /\ s[Len(s)] \in Whitespace
    THEN RStrip(SubSeq(s, 1, Len(s) - 1))
    ELSE s

\* str.strip()
Strip(s) == RStrip(LStrip(s))

\* sep in s, for a one-character sep
Contains(s, sep) == \E k \in 1..Len(s) : s[k] = sep

\* str.split(sep): the pieces between the occurrences of sep, at least one
RECURSIVE Split(_, _)
Split(s, sep) ==
    IF ~Contains(s, sep)
    THEN <<s>>
    ELSE LET k == CHOOSE j \in 1..Len(s) :
                      s[j] = sep /\ \A m \in 1..(j - 1) : s[m] # sep
         IN  <<SubSeq(s, 1, k - 1)>> \o Split(SubSeq(s, k + 1, Len(s)), sep)

\* str.isdigit(): non-empty and every character a digit character
IsDigit(s) == s # <<>> /\ \A k \in 1..Len(s) : s[k] \in DigitChars

DigitVal(c) == CASE c = "0" -> 0 [] c = "1" -> 1 [] c = "2" -> 2 [] c = "3" -> 3
                 [] c = "4" -> 4 [] c = "5" -> 5 [] c = "6" -> 6 [] c = "7" -> 7
                 [] c = "8" -> 8 [] c = "9" -> 9

\* whether int(s) returns: surrounding whitespace is ignored, the rest is a
\* non-empty run of decimal digits (no sign or underscore is in Alphabet)
IntOk(s) ==
    LET t == Strip(s)
    IN  t # <<>> /\ \A k \in 1..Len(t) : t[k] \in DecimalChars

RECURSIVE DecimalValue(_)
DecimalValue(t) ==
    IF t = <<>> THEN 0
    ELSE 10 * DecimalValue(SubSeq(t, 1, Len(t) - 1)) + DigitVal(t[Len(t)])

\* int(s), where IntOk(s)
int(s) == DecimalValue(Strip(s))

\* list(range(a, b + 1))
RangeList(a, b) == [k \in 1..Max(0, b - a + 1) |-> a + k - 1]

\* i in lst
InList(x, lst) == \E k \in 1..Len(lst) : lst[k] = x

(***************************************************************************)
(* parse_pages_param.  The outcome of a call is a record: the returned     *)
(* list, or the exception raised.                                          *)
(***************************************************************************)
Returned(lst) == [raised |-> FALSE, value |-> lst, error |-> ""]

Raised(msg) == [raised |-> TRUE, value |-> <<>>, error |-> msg]

NotCalled == [raised |-> FALSE, value |-> <<>>, error |-> "not called"]

\* the default of line 29
DefaultPages == 6

\* ParseRange with the start clamped to 1 as the end is clamped to total
ParseRange_ClampStart(pages_clean, total) ==
    LET parts == Split(pages_clean, "-")
    IN  IF Len(parts) # 2 \/ ~IntOk(parts[1]) \/ ~IntOk(parts[2])
        THEN Raised("ValueError")
        ELSE Returned(RangeList(Max(1, int(parts[1])), Min(int(parts[2]), total)))

\* start, end = map(int, pages_clean.split("-")): the unpacking takes the
\* first two items, then asks for a third to see that there is none
ParseRange(pages_clean, total) ==
    LET parts == Split(pages_clean, "-")
    IN  IF ~IntOk(parts[1]) \/ ~IntOk(parts[2])
        THEN Raised("ValueError: invalid literal for int()")
        ELSE IF Len(parts) > 2
        THEN IF IntOk(parts[3])
             THEN Raised("ValueError: too many values to unpack")
             ELSE Raised("ValueError: invalid literal for int()")
        ELSE Returned(RangeList(int(parts[1]), Min(int(parts[2]), total)))

\* the comprehension of lines 23-27, token by token
RECURSIVE ParseList(_, _)
ParseList(tokens, total) ==
    IF tokens = <<>> THEN Returned(<<>>)
    ELSE LET p == Strip(Head(tokens))
             rest == ParseList(Tail(tokens), total)
         IN  IF ~IsDigit(p) THEN rest
             ELSE IF ~IntOk(p) THEN Raised("ValueError: invalid literal for int()")
             ELSE IF ~(1 <= int(p) /\ int(p) <= total) THEN rest
             ELSE IF rest.raised THEN rest
             ELSE Returned(<<int(p)>> \o rest.value)

\* parse_pages_param with a run of digits read as the one page N
parse_pages_param_DigitsAsPage(pages_str, total) ==
    IF Truthy(pages_str)
    THEN LET pages_clean == Lower(Strip(pages_str))
         IN  IF pages_clean = <<"a", "l", "l">>
             THEN Returned(RangeList(1, total))
             ELSE IF Contains(pages_clean, "-")
             THEN ParseRange(pages_clean, total)
             ELSE ParseList(Split(pages_clean, ","), total)
    ELSE Returned(RangeList(1, Min(DefaultPages, total)))

parse_pages_param(pages_str, total) ==
    IF Truthy(pages_str)
    THEN LET pages_clean == Lower(Strip(pages_str))
         IN  IF pages_clean = <<"a", "l", "l">>
             THEN Returned(RangeList(1, total))
             ELSE IF Contains(pages_clean, "-")
             THEN ParseRange(pages_clean, total)
             ELSE IF IsDigit(pages_clean)
             THEN IF IntOk(pages_clean)
                  THEN Returned(RangeList(1, Min(int(pages_clean), total)))
                  ELSE Raised("ValueError: invalid literal for int()")
             ELSE ParseList(Split(pages_clean, ","), total)
    ELSE Returned(RangeList(1, Min(DefaultPages, total)))

(***************************************************************************)
(* The parser on its own: a call with any specifier and any page count.    *)
(***************************************************************************)
AllWords == {<<"a", "l", "l">>, <<"A", "L", "L">>, <<" ", "A", "l", "l", " ">>}

Specifiers(n) == Strings(n) \cup AllWords \cup {None}

NoExc == ""

NoResponse == [status_code |-> 0, body |-> [status |-> "none"]]

Idle ==
    /\ endpoint = "none"
    /\ doc = <<>>
    /\ files = {}
    /\ i = 0
    /\ result_text = <<>>
    /\ all_dfs = <<>>
    /\ total_tables = 0
    /\ combined_df = <<>>
    /\ sheet = <<>>
    /\ exc = NoExc
    /\ response = NoResponse

InitParse ==
    /\ pc = "call"
    /\ pages \in Specifiers(MaxLen)
    /\ total_pages \in 0..MaxTotal
    /\ parsed = NotCalled
    /\ Idle

ParseCall ==
    /\ pc = "call"
    /\ parsed' = parse_pages_param(pages, total_pages)
    /\ pc' = "returned"
    /\ UNCHANGED <<endpoint, pages, doc, files, total_pages, i, result_text,
                   all_dfs, total_tables, combined_df, sheet, exc, response>>

NextParse == ParseCall

SpecParse == InitParse /\ [][NextParse]_vars

(***************************************************************************)
(* What the handlers compute with: formatting, joining, substring search.  *)
(***************************************************************************)
DigitChar(d) == CASE d = 0 -> "0" [] d = 1 -> "1" [] d = 2 -> "2" [] d = 3 -> "3"
                  [] d = 4 -> "4" [] d = 5 -> "5" [] d = 6 -> "6" [] d = 7 -> "7"
                  [] d = 8 -> "8" [] d = 9 -> "9"

\* str(n) of a natural number, as an f-string formats it
RECURSIVE str(_)
str(n) == IF n < 10 THEN <<DigitChar(n)>> ELSE str(n \div 10) \o <<DigitChar(n % 10)>>

\* text or ""
OrEmpty(text) == IF Truthy(text) THEN text ELSE <<>>

\* f"\n=== Stranica {i} ===\n{text}" (line 64)
Section(n, text) ==
    <<"\n", "=", "=", "=", " ", "S", "t", "r", "a", "n", "i", "c", "a", " ">>
        \o str(n) \o <<" ", "=", "=", "=", "\n">> \o text

\* sep.join(parts)
RECURSIVE Join(_, _)
Join(sep, parts) ==
    IF parts = <<>> THEN <<>>
    ELSE IF Len(parts) = 1 THEN parts[1]
    ELSE parts[1] \o sep \o Join(sep, Tail(parts))

\* sum(len(t) for t in parts)
RECURSIVE SumLen(_)
SumLen(parts) == IF parts = <<>> THEN 0 ELSE Len(Head(parts)) + SumLen(Tail(parts))

\* key in s, for strings
IsSubstring(key, s) ==
    \E k \in 0..(Len(s) - Len(key)) : SubSeq(s, k + 1, k + Len(key)) = key

\* s.replace(old, new), old non-empty: every occurrence, left to right
RECURSIVE Replace(_, _, _)
Replace(s, old, new) ==
    IF Len(s) < Len(old) THEN s
    ELSE IF SubSeq(s, 1, Len(old)) = old
    THEN new \o Replace(SubSeq(s, Len(old) + 1, Len(s)), old, new)
    ELSE <<Head(s)>> \o Replace(Tail(s), old, new)

\* str.splitlines(), for the line break "\n"
SplitLines(s) ==
    LET parts == Split(s, "\n")
    IN  IF parts[Len(parts)] = <<>> THEN SubSeq(parts, 1, Len(parts) - 1) ELSE parts

\* lines 117 and 136, letter by letter in Latin transliteration
header_keywords ==
    << <<"K", "N", "P">>,
       <<"D", "e", "b", "e", "t">>,
       <<"K", "r", "e", "d", "i", "t">>,
       <<"N", "a", "z", "n", "a", "c", "h", "e", "n", "i", "e">>,
       <<"B", "I", "K">>,
       <<"N", "o", "m", "e", "r", " ", "d", "o", "k", "u", "m", "e", "n", "t", "a">> >>

\* any(key in line for key in header_keywords)
HasKeyword(line) ==
    \E k \in 1..Len(header_keywords) : IsSubstring(header_keywords[k], line)

\* any(any(key in str(cell) for key in header_keywords) for cell in first_row)
IsHeaderRow(first_row) == \E c \in 1..Len(first_row) : HasKeyword(first_row[c])

(***************************************************************************)
(* Tables.  A DataFrame is its number of columns and its rows; a cell is a *)
(* string, or NaN where pd.concat fills a narrower frame.                  *)
(***************************************************************************)
NaN == <<"NaN">>

\* AppendTable looking for a keyword in the first cell of the row only
AppendTable_FirstCellOnly(dfs, df) ==
    IF Len(dfs) = 0
    THEN Append(dfs, df)
    ELSE IF HasKeyword(df.rows[1][1])
    THEN Append(dfs, [cols |-> df.cols, rows |-> Tail(df.rows)])
    ELSE Append(dfs, df)

\* lines 112-121: the first frame whole, a later one without its first row
\* when that row holds a header keyword
AppendTable(dfs, df) ==
    IF Len(dfs) = 0
    THEN Append(dfs, df)
    ELSE IF IsHeaderRow(df.rows[1])
    THEN Append(dfs, [cols |-> df.cols, rows |-> Tail(df.rows)])
    ELSE Append(dfs, df)

\* the loop of line 110 over one page's tables
RECURSIVE AppendTables(_, _)
AppendTables(dfs, tables) ==
    IF tables = <<>> THEN dfs
    ELSE AppendTables(AppendTable(dfs, Head(tables)), Tail(tables))

\* line 109, under the test of line 108
CountTables(count, tables) == IF tables # <<>> THEN count + Len(tables) ELSE count

\* the test of line 125 left out
NoTablesFound_Never(dfs) == FALSE

\* not all_dfs (line 125)
NoTablesFound(dfs) == dfs = <<>>

RECURSIVE MaxCols(_)
MaxCols(dfs) == IF dfs = <<>> THEN 0 ELSE Max(Head(dfs).cols, MaxCols(Tail(dfs)))

PadRow(row, width) == [c \in 1..width |-> IF c <= Len(row) THEN row[c] ELSE NaN]

RECURSIVE ConcatRows(_, _)
ConcatRows(dfs, width) ==
    IF dfs = <<>> THEN <<>>
    ELSE [k \in 1..Len(Head(dfs).rows) |-> PadRow(Head(dfs).rows[k], width)]
             \o ConcatRows(Tail(dfs), width)

\* pd.concat(all_dfs, ignore_index=True) of a non-empty list: the union of
\* the columns 0..n-1, the rows in order, NaN where a frame has no column
PdConcat(dfs) == [cols |-> MaxCols(dfs), rows |-> ConcatRows(dfs, MaxCols(dfs))]

\* lines 132-140: the lines of the first page before the first one holding
\* a header keyword
RECURSIVE MetadataLines(_)
MetadataLines(lines) ==
    IF lines = <<>> \/ HasKeyword(Head(lines)) THEN <<>>
    ELSE <<Head(lines)>> \o MetadataLines(Tail(lines))

\* lines 150-156
StartRow(metadata_lines) ==
    IF metadata_lines # <<>> THEN Len(metadata_lines) + 2 ELSE 2

\* lines 145-168: the rows of the sheet, row r of the sheet at index r + 1;
\* a row nothing was written to is <<>>
WriteSheet(metadata_lines, combined) ==
    LET start_row == StartRow(metadata_lines)
        empty_row == [c \in 1..combined.cols |-> <<>>]
        table == <<empty_row>> \o combined.rows
    IN  [r \in 1..(start_row + Len(table)) |->
            IF r = 1 THEN << <<>> >>
            ELSE IF r - 1 <= Len(metadata_lines) THEN <<metadata_lines[r - 1]>>
            ELSE IF r > start_row THEN table[r - start_row]
            ELSE <<>>]

\* base64.b64encode(excel_bytes).decode("utf-8")
B64Encode(bytes) == [encoding |-> "base64", of |-> bytes]

(***************************************************************************)
(* Requests.                                                               *)
(***************************************************************************)
\* file.filename
FileName == <<"a", ".", "p", "d", "f">>

\* what page.extract_text() gives for a page /extract reads
PageTexts == {None, <<"a">>}

\* what pdf.pages[0].extract_text() gives in /convert-to-excel
FirstPageTexts == {None, <<"x", "\n", "B", "I", "K", "\n", "y">>}

HeaderRow == << <<"N">>, <<"D", "e", "b", "e", "t">> >>

DataRow == << <<"1">>, <<"5">> >>

\* the tables the table backend finds; a table has at least one row
GridSet ==
    { [cols |-> 2, rows |-> <<HeaderRow, DataRow>>],
      [cols |-> 2, rows |-> <<DataRow, HeaderRow>>],
      [cols |-> 2, rows |-> <<HeaderRow>>],
      [cols |-> 1, rows |-> << << <<"B", "I", "K", " ", "7">> >>, << <<"9">> >> >>] }

TableLists == UNION {[1..n -> GridSet] : n \in 0..MaxTables}

\* /extract reads only the text of a page
ExtractDocs ==
    UNION {[1..n -> {[text |-> t, tables |-> <<>>] : t \in PageTexts}] : n \in 0..MaxPages}

\* /convert-to-excel reads the tables of every page and the text of the first
ConvertDocs ==
    UNION { {d \in [1..n -> {[text |-> t, tables |-> tl] :
                                 t \in FirstPageTexts, tl \in TableLists}] :
                 \A k \in 2..n : d[k].text = None} : n \in 0..MaxPages }

\* the except clause answering with the fields of a success as well
ErrorResponse_WithFields(msg) ==
    [status_code |-> 500,
     body |-> [status |-> "error", message |-> msg, total_pages |-> 0, text |-> <<>>]]

\* the except clauses, lines 78-82 and 186-187
ErrorResponse(msg) ==
    [status_code |-> 500, body |-> [status |-> "error", message |-> msg]]

\* lines 68-76
ExtractResponse(name, total, texts) ==
    [status_code |-> 200,
     body |-> [status |-> "ok",
               file_name |-> name,
               total_pages |-> total,
               pages_processed |-> Len(texts),
               text_length |-> SumLen(texts),
               text |-> Join(<<"\n">>, texts),
               engine_used |-> "pdfplumber"]]

\* line 127
NoTablesResponse ==
    [status_code |-> 400, body |-> [status |-> "error", message |-> "No tables found."]]

\* lines 179-184
ConvertResponse(name, count, excel_bytes) ==
    [status_code |-> 200,
     body |-> [status |-> "ok",
               file_name |-> Replace(name, <<".", "p", "d", "f">>, <<".", "x", "l", "s", "x">>),
               tables_extracted |-> count,
               excel_base64 |-> B64Encode(excel_bytes)]]

\* enumerate(pdf.pages) without start=1
Selected_FromZero(n, page_numbers) == InList(n - 1, page_numbers)

\* i in page_numbers (line 62)
Selected(n, page_numbers) == InList(n, page_numbers)

(***************************************************************************)
(* The handlers.  A call of a collaborator (the upload, the file system,   *)
(* pdfplumber, camelot, pandas) either returns or raises; the handler's    *)
(* except clause turns whatever is raised into the error response.         *)
(***************************************************************************)
Init ==
    /\ pc = "idle"
    /\ pages = None
    /\ total_pages = 0
    /\ parsed = NotCalled
    /\ Idle

\* except Exception as e: return JSONResponse({"status": "error", ...}, 500)
Except(msg) ==
    /\ exc' = msg
    /\ response' = ErrorResponse(msg)
    /\ pc' = "done"

\* a request arrives: the route, the form fields and the uploaded document
Request ==
    /\ pc = "idle"
    /\ \/ /\ endpoint' = "/extract"
          /\ pages' \in Specifiers(MaxReqLen)
          /\ doc' \in ExtractDocs
       \/ /\ endpoint' = "/convert-to-excel"
          /\ pages' = None
          /\ doc' \in ConvertDocs
    /\ pc' = "save"
    /\ UNCHANGED <<files, total_pages, parsed, i, result_text, all_dfs,
                   total_tables, combined_df, sheet, exc, response>>

\* lines 51-56: the upload is written to a temporary .pdf that outlives
\* the with block (delete=False)
ExtractSave ==
    /\ pc = "save" /\ endpoint = "/extract"
    /\ \/ /\ Except("OSError: cannot create the temporary file")
          /\ UNCHANGED <<files, result_text, i>>
       \/ /\ files' = files \cup {"pdf"}
          /\ Except("OSError: cannot write the upload")
          /\ UNCHANGED <<result_text, i>>
       \/ /\ files' = files \cup {"pdf"}
          /\ result_text' = <<>>
          /\ i' = 1
          /\ pc' = "open"
          /\ UNCHANGED <<exc, response>>
    /\ UNCHANGED <<endpoint, pages, doc, total_pages, parsed, all_dfs,
                   total_tables, combined_df, sheet>>

\* lines 58-60: open the document, count its pages, resolve the specifier
ExtractOpen ==
    /\ pc = "open" /\ endpoint = "/extract"
    /\ \/ /\ Except("PDFSyntaxError: not a PDF")
          /\ UNCHANGED <<total_pages, parsed>>
       \/ /\ total_pages' = Len(doc)
          /\ parsed' = parse_pages_param(pages, Len(doc))
          /\ IF parsed'.raised
             THEN Except(parsed'.error)
             ELSE pc' = "loop" /\ UNCHANGED <<exc, response>>
    /\ UNCHANGED <<endpoint, pages, doc, files, i, result_text, all_dfs,
                   total_tables, combined_df, sheet>>

\* lines 61-64: one iteration of the loop over pdf.pages
ExtractPage ==
    /\ pc = "loop" /\ endpoint = "/extract"
    /\ i <= total_pages
    /\ IF Selected(i, parsed.value)
       THEN \/ /\ Except("Exception: extract_text failed")
               /\ UNCHANGED <<i, result_text>>
            \/ /\ result_text' =
                      Append(result_text, Section(i, OrEmpty(doc[i].text)))
               /\ i' = i + 1
               /\ UNCHANGED <<pc, exc, response>>
       ELSE /\ i' = i + 1
            /\ UNCHANGED <<pc, exc, response, result_text>>
    /\ UNCHANGED <<endpoint, pages, doc, files, total_pages, parsed, all_dfs,
                   total_tables, combined_df, sheet>>

\* lines 66-76: the loop is over; delete the temporary file and answer
ExtractFinish ==
    /\ pc = "loop" /\ endpoint = "/extract"
    /\ i > total_pages
    /\ files' = files \ {"pdf"}
    /\ response' = ExtractResponse(FileName, total_pages, result_text)
    /\ pc' = "done"
    /\ UNCHANGED <<endpoint, pages, doc, total_pages, parsed, i, result_text,
                   all_dfs, total_tables, combined_df, sheet, exc>>

\* lines 93-95
ConvertSave ==
    /\ pc = "save" /\ endpoint = "/convert-to-excel"
    /\ \/ /\ Except("OSError: cannot create the temporary file")
          /\ UNCHANGED files
       \/ /\ files' = files \cup {"pdf"}
          /\ Except("OSError: cannot write the upload")
       \/ /\ files' = files \cup {"pdf"}
          /\ pc' = "open"
          /\ UNCHANGED <<exc, response>>
    /\ UNCHANGED <<endpoint, pages, doc, total_pages, parsed, i, result_text,
                   all_dfs, total_tables, combined_df, sheet>>

\* lines 98-102
ConvertOpen ==
    /\ pc = "open" /\ endpoint = "/convert-to-excel"
    /\ \/ /\ Except("PDFSyntaxError: not a PDF")
          /\ UNCHANGED <<total_pages, all_dfs, total_tables, i>>
       \/ /\ total_pages' = Len(doc)
          /\ all_dfs' = <<>>
          /\ total_tables' = 0
          /\ i' = 1
          /\ pc' = "loop"
          /\ UNCHANGED <<exc, response>>
    /\ UNCHANGED <<endpoint, pages, doc, files, parsed, result_text,
                   combined_df, sheet>>

\* lines 105-123: one page: read its tables and append them
ConvertPage ==
    /\ pc = "loop" /\ endpoint = "/convert-to-excel"
    /\ i <= total_pages
    /\ \/ /\ Except("Exception: read_pdf failed")
          /\ UNCHANGED <<i, all_dfs, total_tables>>
       \/ /\ total_tables' = CountTables(total_tables, doc[i].tables)
          /\ all_dfs' = AppendTables(all_dfs, doc[i].tables)
          /\ i' = i + 1
          /\ UNCHANGED <<pc, exc, response>>
    /\ UNCHANGED <<endpoint, pages, doc, files, total_pages, parsed,
                   result_text, combined_df, sheet>>

\* lines 125-127
ConvertNoTables ==
    /\ pc = "loop" /\ endpoint = "/convert-to-excel"
    /\ i > total_pages
    /\ NoTablesFound(all_dfs)
    /\ files' = files \ {"pdf"}
    /\ response' = NoTablesResponse
    /\ pc' = "done"
    /\ UNCHANGED <<endpoint, pages, doc, total_pages, parsed, i, result_text,
                   all_dfs, total_tables, combined_df, sheet, exc>>

\* lines 129-168: combine the frames, read the metadata lines, create the
\* temporary .xlsx and write the sheet
ConvertWrite ==
    /\ pc = "loop" /\ endpoint = "/convert-to-excel"
    /\ i > total_pages
    /\ ~NoTablesFound(all_dfs)
    /\ IF all_dfs = <<>>
       THEN /\ Except("ValueError: No objects to concatenate")
            /\ UNCHANGED <<files, combined_df, sheet>>
       ELSE \/ /\ combined_df' = PdConcat(all_dfs)
               /\ Except("Exception: extract_text failed")
               /\ UNCHANGED <<files, sheet>>
            \/ /\ combined_df' = PdConcat(all_dfs)
               /\ Except("OSError: cannot create the temporary file")
               /\ UNCHANGED <<files, sheet>>
            \/ /\ combined_df' = PdConcat(all_dfs)
               /\ files' = files \cup {"xlsx"}
               /\ Except("Exception: cannot write the workbook")
               /\ UNCHANGED sheet
            \/ /\ combined_df' = PdConcat(all_dfs)
               /\ files' = files \cup {"xlsx"}
               /\ sheet' = WriteSheet(
                      MetadataLines(SplitLines(OrEmpty(doc[1].text))),
                      PdConcat(all_dfs))
               /\ pc' = "encode"
               /\ UNCHANGED <<exc, response>>
    /\ UNCHANGED <<endpoint, pages, doc, total_pages, parsed, i, result_text,
                   all_dfs, total_tables>>

\* lines 170-184: encode the workbook, delete both temporary files, answer
ConvertRespond ==
    /\ pc = "encode" /\ endpoint = "/convert-to-excel"
    /\ \/ /\ Except("OSError: cannot read the workbook")
          /\ UNCHANGED files
       \/ /\ files' = files \ {"pdf", "xlsx"}
          /\ response' = ConvertResponse(FileName, total_tables, sheet)
          /\ pc' = "done"
          /\ UNCHANGED exc
    /\ UNCHANGED <<endpoint, pages, doc, total_pages, parsed, i, result_text,
                   all_dfs, total_tables, combined_df, sheet>>

Next ==
    \/ Request
    \/ ExtractSave
    \/ ExtractOpen
    \/ ExtractPage
    \/ ExtractFinish
    \/ ConvertSave
    \/ ConvertOpen
    \/ ConvertPage
    \/ ConvertNoTables
    \/ ConvertWrite
    \/ ConvertRespond

Spec == Init /\ [][Next]_vars

(***************************************************************************)
(* Properties of parse_pages_param, under SpecParse.                       *)
(***************************************************************************)
AllDecimal(t) == t # <<>> /\ \A k \in 1..Len(t) : t[k] \in DecimalChars

\* lst is exactly a, a + 1, ..., b (empty when a > b)
IsRun(lst, a, b) ==
    /\ Len(lst) = Max(0, b - a + 1)
    /\ \A k \in 1..Len(lst) : lst[k] = a + k - 1

(* C1: whenever parse_pages_param returns, the returned collection holds   *)
(* only integers p with 1 <= p <= total_pages, holds no value twice and    *)
(* is in ascending order.                                                  *)
C1_ResolvedPagesInvariant ==
    (pc = "returned" /\ ~parsed.raised) =>
        LET v == parsed.value
        IN  /\ \A k \in 1..Len(v) : 1 <= v[k] /\ v[k] <= total_pages
            /\ \A j \in 1..Len(v) : \A k \in 1..Len(v) : j < k => v[j] < v[k]

\* a non-empty specifier that is neither "all" nor a single run of digits
ListForm(s) ==
    /\ Truthy(s)
    /\ Lower(Strip(s)) # <<"a", "l", "l">>
    /\ ~IsDigit(Lower(Strip(s)))

\* the tokens that are decimal integers within [1, total], as integers, in
\* the order of the specifier
Surviving(tokens, total) ==
    LET Keeps(t) == AllDecimal(Strip(t)) /\ 1 <= DecimalValue(Strip(t))
                                         /\ DecimalValue(Strip(t)) <= total
        kept == SelectSeq(tokens, Keeps)
    IN  [k \in 1..Len(kept) |-> DecimalValue(Strip(kept[k]))]

(* C3: for a non-empty specifier that is a comma-separated list of tokens  *)
(* (not "all", not a single run of digits) parse_pages_param never raises: *)
(* every token that is not a valid integer within [1, total_pages] is      *)
(* dropped and the result is exactly the surviving integers.               *)
C3_ListNeverRaises ==
    (pc = "returned" /\ ListForm(pages)) =>
        /\ ~parsed.raised
        /\ parsed.value = Surviving(Split(Lower(Strip(pages)), ","), total_pages)

\* pages is S-E, S and E runs of decimal digits, the "-" at position k
RangeFormAt(s, k) ==
    /\ s # None
    /\ k \in 1..Len(s)
    /\ s[k] = "-"
    /\ AllDecimal(SubSeq(s, 1, k - 1))
    /\ AllDecimal(SubSeq(s, k + 1, Len(s)))

RangeStart(s, k) == DecimalValue(SubSeq(s, 1, k - 1))

RangeEnd(s, k) == DecimalValue(SubSeq(s, k + 1, Len(s)))

(* C4: for a specifier S-E with S and E decimal integers the result is     *)
(* exactly the integers from S to min(E, total_pages): the end is clamped, *)
(* the start is not (S above the clamped end gives the empty result, S     *)
(* below 1 gives values below 1).                                          *)
C4_RangeClampsEndOnly ==
    pc = "returned" =>
        \A k \in 1..MaxLen + 1 :
            RangeFormAt(pages, k) =>
                /\ ~parsed.raised
                /\ IsRun(parsed.value, RangeStart(pages, k),
                         Min(RangeEnd(pages, k), total_pages))

\* "0-E" with E beyond the document: the result starts at 0 and ends at
\* total_pages
C4_Witness ==
    /\ pc = "returned"
    /\ RangeFormAt(pages, 2)
    /\ RangeStart(pages, 2) = 0
    /\ RangeEnd(pages, 2) > total_pages
    /\ total_pages >= 1
    /\ parsed.value = [k \in 1..total_pages + 1 |-> k - 1]

(* C5: an absent or empty specifier gives exactly 1..min(6, total_pages);  *)
(* a specifier that, trimmed, is a run of decimal digits of value N gives  *)
(* exactly 1..min(N, total_pages): the first N pages, not page N.          *)
C5_FirstNPages ==
    pc = "returned" =>
        /\ (pages = None \/ pages = <<>>) =>
               ~parsed.raised /\ IsRun(parsed.value, 1, Min(6, total_pages))
        /\ (pages # None /\ AllDecimal(Strip(pages))) =>
               /\ ~parsed.raised
               /\ IsRun(parsed.value, 1,
                        Min(DecimalValue(Strip(pages)), total_pages))

\* "2" on a longer document gives pages 1 and 2; no specifier on a
\* 7-page document gives the first 6
C5_Witness ==
    /\ pc = "returned"
    /\ \/ pages = <<"2">> /\ total_pages = 3 /\ parsed.value = <<1, 2>>
       \/ pages = None /\ total_pages = 7 /\ parsed.value = <<1, 2, 3, 4, 5, 6>>

(***************************************************************************)
(* Properties of the handlers, under Spec.                                 *)
(***************************************************************************)
Answered == pc = "done"

Ok == Answered /\ response.body.status = "ok"

(* C2: on every exit path of /extract and /convert-to-excel, when the      *)
(* response is returned every temporary file the call created has been     *)
(* deleted.                                                                *)
C2_TempFilesDeleted == Answered => files = {}

(* C6: in every successful /extract response text_length equals the        *)
(* length of the returned text.                                            *)
C6_TextLengthIsLenOfText ==
    (Ok /\ endpoint = "/extract") =>
        response.body.text_length = Len(response.body.text)

\* the document pages whose number is in the resolved collection
ResolvedPages ==
    {p \in 1..total_pages : \E k \in 1..Len(parsed.value) : parsed.value[k] = p}

\* the k-th smallest element of a set of numbers
KthSmallest(S, k) == CHOOSE p \in S : Cardinality({q \in S : q < p}) = k - 1

(* C7: a successful /extract emits exactly one delimited section for each  *)
(* document page whose number is in the resolved page collection, in       *)
(* ascending page order whatever the order or repetition of the numbers    *)
(* in the specifier; pages_processed is the number of sections, and with   *)
(* pages = "all" it is total_pages.                                        *)
C7_OneSectionPerResolvedPage ==
    (Ok /\ endpoint = "/extract") =>
        /\ Len(result_text) = Cardinality(ResolvedPages)
        /\ \A k \in 1..Len(result_text) :
               LET p == KthSmallest(ResolvedPages, k)
               IN  result_text[k] = Section(p, OrEmpty(doc[p].text))
        /\ response.body.text = Join(<<"\n">>, result_text)
        /\ response.body.pages_processed = Cardinality(ResolvedPages)
        /\ response.body.total_pages = Len(doc)
        /\ (pages # None /\ Lower(Strip(pages)) = <<"a", "l", "l">>) =>
               response.body.pages_processed = Len(doc)

\* pages = "2,1" on a two-page document: both pages, page 1 first
C7_Witness ==
    /\ Ok /\ endpoint = "/extract"
    /\ pages = <<"2", ",", "1">>
    /\ Len(doc) = 2
    /\ parsed.value = <<2, 1>>
    /\ response.body.pages_processed = 2
    /\ result_text[1] = Section(1, OrEmpty(doc[1].text))

(* C8: an exception raised while handling /extract or /convert-to-excel    *)
(* (a malformed "-" range included) ends the request there, and the        *)
(* response holds only status = "error" and message = the exception text,  *)
(* with an error HTTP status and none of the success fields.               *)
C8_ErrorEnvelope ==
    /\ exc # NoExc =>
           /\ Answered
           /\ response.status_code >= 400
           /\ DOMAIN response.body = {"status", "message"}
           /\ response.body.status = "error"
           /\ response.body.message = exc
    /\ parsed.raised => exc = parsed.error /\ result_text = <<>>

\* pages = "x-1": int("x") raises, the temporary file is already there
C8_Witness ==
    /\ Answered /\ endpoint = "/extract"
    /\ pages = <<"x", "-", "1">>
    /\ parsed.raised
    /\ response.status_code = 500
    /\ "text" \notin DOMAIN response.body

(* C9: when the table backend has read every page and found no table       *)
(* (a document of no pages included) /convert-to-excel answers status      *)
(* "error", message "No tables found.", HTTP 400, never "ok"; every "ok"   *)
(* response of /convert-to-excel has tables_extracted >= 1.                *)
C9_NoTablesIsClientError ==
    (Answered /\ endpoint = "/convert-to-excel") =>
        /\ response.body.status = "ok" => response.body.tables_extracted >= 1
        /\ (/\ total_pages = Len(doc)
            /\ i = Len(doc) + 1
            /\ \A p \in 1..Len(doc) : doc[p].tables = <<>>) =>
               /\ response.status_code = 400
               /\ response.body = [status |-> "error", message |-> "No tables found."]

\* a two-page document without tables
C9_Witness ==
    /\ Answered /\ endpoint = "/convert-to-excel"
    /\ Len(doc) = 2
    /\ i = 3
    /\ doc[1].tables = <<>> /\ doc[2].tables = <<>>
    /\ response.status_code = 400

\* the tables of the document, page after page, in the order found on a page
RECURSIVE FlatTables(_)
FlatTables(d) == IF d = <<>> THEN <<>> ELSE Head(d).tables \o FlatTables(Tail(d))

\* a row of the combined frame without the cells pd.concat filled in
Unpad(row) == LET Real(c) == c # NaN IN SelectSeq(row, Real)

\* the rows the k-th table contributes: all of them, or all but a first row
\* holding a header keyword, for the tables from number first on
RECURSIVE RowsFrom(_, _, _)
RowsFrom(tables, k, first) ==
    IF k > Len(tables) THEN <<>>
    ELSE (IF k >= first /\ IsHeaderRow(tables[k].rows[1])
          THEN Tail(tables[k].rows)
          ELSE tables[k].rows) \o RowsFrom(tables, k + 1, first)

Combined == endpoint = "/convert-to-excel" /\ (pc = "encode" \/ Ok)

CombinedRows == [k \in 1..Len(combined_df.rows) |-> Unpad(combined_df.rows[k])]

====
